---- MODULE Spec2Model ----
(***************************************************************************)
(* Model of the chat client of nextjs-app:                                 *)
(*   firebase.js               module-level client initialisation          *)
(*   src/app/ChatAppComponent.js                                           *)
(*       ChatAppComponent      session state, composer draft, handlers     *)
(*       MessagesList          feed subscription (query + hook state)      *)
(*       MessageForm           draft input and submit control              *)
(* The identity provider and the document store are external; they are     *)
(* modelled by the outcomes their calls can have (resolve / reject) and by *)
(* the createdAt index the query reads.                                    *)
(***************************************************************************)
EXTENDS Integers, Sequences, FiniteSets, TLC

\* ---------------------------------------------------------------- bounds
MaxAppends == 1       \* addDoc calls issued by this client
MaxAuthCalls == 2     \* signInWithPopup and signOut calls issued by this client

\* ------------------------------------------------------ program constants
QueryLimit == 50      \* limit(50)
PendingTs  == -1      \* createdAt of a document whose serverTimestamp() is unresolved (null)

\* ------------------------------------------------------------ identities
NoUser == "null"
Users  == {"u1", "u2"}

\* profile fields supplied by the provider; u2 has no display name and no photo
DisplayName(u) == IF u = "u1" THEN "Alice" ELSE ""
PhotoURL(u)    == IF u = "u1" THEN "photo1" ELSE "null"

\* ---------------------------------------------------------------- drafts
\* what the user types, as sequences of characters: one draft of each kind the
\* code tells apart (empty, whitespace only, text, text with padding)
Drafts == {<<>>, <<" ">>, <<"a">>, <<" ", "a">>}

RECURSIVE TrimStart(_)
TrimStart(s) ==
  IF s = <<>> THEN s
  ELSE IF Head(s) = " " THEN TrimStart(Tail(s)) ELSE s

RECURSIVE TrimEnd(_)
TrimEnd(s) ==
  IF s = <<>> THEN s
  ELSE IF s[Len(s)] = " " THEN TrimEnd(SubSeq(s, 1, Len(s) - 1)) ELSE s

\* String.prototype.trim
Trim(s) == TrimEnd(TrimStart(s))

\* ---------------------------------------------------------------- outputs
\* what a handler run writes to the console, shows in a notice or asks of the
\* browser
LogSendError    == <<"console.error", "Error sending message:">>
LogSignInError  == <<"console.error", "Error signing in with Google:">>
LogSignOutError == <<"console.error", "Error signing out:">>
SignInAlert     == <<"alert", "Failed to sign in with Google. Please try again.">>
PreventDefault  == <<"event", "preventDefault">>
RouterPush      == <<"router.push", "https://necxis-assignment-one.vercel.app/">>

\* ------------------------------------------------------- firebase.js
ConfigKeys == {"apiKey", "authDomain", "projectId", "storageBucket",
               "messagingSenderId", "appId", "measurementId"}

VARIABLES
  config,         \* connection parameters present in the environment
  loaded,         \* firebase.js has been evaluated
  handles,        \* client handles that exist: subset of {"app","auth","db"}
  initError,      \* firebase.js threw while being evaluated
  user,           \* useState(null): identity seen by the view, or NoUser
  loadingAuth,    \* useState(true)
  formValue,      \* useState(''): the draft
  draftAuthor,    \* history: the identity whose keystrokes produced the draft
  phase,          \* ChatAppComponent: "rendered" | "effects" | "dismounted"
  authObservers,  \* onAuthStateChanged observers registered and not unsubscribed
  providerUser,   \* auth.currentUser held by the identity provider
  observerDirty,  \* the provider owes the onAuthStateChanged observer a callback
  authResolved,   \* the observer has been called at least once
  signInPending,  \* signInWithPopup calls awaiting the provider
  signInResolved, \* signInWithPopup promises resolved, continuation not yet run
  signOutPending, \* signOut calls awaiting the provider
  pendingWrites,  \* addDoc calls awaiting the store, in issue order
  store,          \* the messages collection, in createdAt index order
  feedStatus,     \* MessagesList: "unmounted" | "loading" | "ready" | "error"
  messages,       \* MessagesList: value of useCollectionData
  feedListeners,  \* snapshot listeners of the hook that are attached
  emitted,        \* outputs of the handler or callback that ran last
  addDocCalls,    \* addDoc calls issued so far
  authCalls       \* signInWithPopup and signOut calls issued so far

bootVars  == <<config, loaded, handles, initError>>
authVars  == <<providerUser, observerDirty, authResolved>>
signVars  == <<signInPending, signInResolved, signOutPending>>
storeVars == <<pendingWrites, store>>
feedVars  == <<feedStatus, messages, feedListeners>>
lifeVars  == <<phase, authObservers>>
calls     == <<addDocCalls, authCalls>>
vars == <<config, loaded, handles, initError, user, loadingAuth, formValue,
          draftAuthor, phase, authObservers,
          providerUser, observerDirty, authResolved, signInPending,
          signInResolved, signOutPending, pendingWrites, store, feedStatus,
          messages, feedListeners, emitted, addDocCalls, authCalls>>

\* ---------------------------------------------------------------- helpers
RemoveAt(s, i) == SubSeq(s, 1, i - 1) \o SubSeq(s, i + 1, Len(s))

Take(s, n) == SubSeq(s, 1, IF Len(s) < n THEN Len(s) ELSE n)

Ids(s) == {s[i].id : i \in 1..Len(s)}

\* a message document; id is the store's document key, <<origin, ordinal>>
Doc(id, text, uid, photoURL, userName, createdAt) ==
  [id |-> id, text |-> text, uid |-> uid, photoURL |-> photoURL,
   userName |-> userName, createdAt |-> createdAt]

\* documents already in the collection when the page is opened
SeedDoc(k) == Doc(<<"seed", k>>, <<"a">>, "u2", "null", "Anonymous", k)
SeedSizes  == {1, QueryLimit}

\* the timestamp the store assigns to the next committed document
NextTs == IF store = <<>> THEN 1 ELSE store[Len(store)].createdAt + 1

\* ------------------------------------------------------- firebase.js
\* firebase.js:8-29.  The config object is built from the environment with no
\* check and initializeApp accepts it.  getAuth is the identity SDK's: it
\* raises auth/invalid-api-key when the API key is absent, and evaluation of
\* the module stops there; no other parameter is looked at.
LoadFirebase ==
  /\ ~loaded
  /\ loaded' = TRUE
  /\ IF "apiKey" \in config
     THEN handles' = {"app", "auth", "db"} /\ initError' = FALSE
     ELSE handles' = {"app"} /\ initError' = TRUE
  /\ UNCHANGED <<lifeVars, config, user, loadingAuth, formValue, draftAuthor, authVars, signVars,
                 storeVars, feedVars, emitted, calls>>

\* ------------------------------------------------------- render
\* ChatAppComponent.js:302-378: the ternary that selects the view
ViewOf(l, u) == IF l THEN "loading" ELSE IF u # NoUser THEN "chat" ELSE "prompt"

View == ViewOf(loadingAuth, user)

\* ChatAppComponent is in the tree
Mounted == phase # "dismounted"

\* the hook of MessagesList has a listener attached: from its mount until it
\* is unmounted or the listener is ended by an error
Listening == feedStatus \in {"loading", "ready"}

\* MessagesList is mounted exactly while the chat view is rendered
\* (ChatAppComponent.js:353); mounting starts the subscription with the hook
\* in its loading state (line 110), unmounting detaches the listener and
\* discards the hook state.
Rerender(l, u) ==
  IF ViewOf(l, u) = "chat"
  THEN IF feedStatus = "unmounted"
       THEN /\ feedStatus' = "loading" /\ messages' = <<>>
            /\ feedListeners' = feedListeners + 1
       ELSE UNCHANGED feedVars
  ELSE /\ feedStatus' = "unmounted" /\ messages' = <<>>
       /\ feedListeners' = IF Listening THEN feedListeners - 1 ELSE feedListeners

\* the query without its limit
MessagesQuery_NoLimit(st, pw) == st \o pw

\* query(messagesRef, orderBy('createdAt'), limit(50)) evaluated on the local
\* view: committed documents in createdAt order, then this client's pending
\* writes (null createdAt orders last), cut to the first QueryLimit.
MessagesQuery(st, pw) == Take(st \o pw, QueryLimit)

\* ------------------------------------------------------- session controller
\* ChatAppComponent.js:245-246: the mount effect (empty dependency list, so it
\* runs once, after the first render) registers the observer
MountEffect ==
  /\ loaded /\ "auth" \in handles
  /\ phase = "rendered"
  /\ phase' = "effects"
  /\ authObservers' = authObservers + 1
  /\ emitted' = <<>>
  /\ UNCHANGED <<calls, bootVars, user, loadingAuth, formValue, draftAuthor,
                 authVars, signVars, storeVars, feedVars>>

\* the component dismounted with an effect that returns no cleanup
Unmount_NoCleanup ==
  /\ Mounted
  /\ phase' = "dismounted"
  /\ feedListeners' = IF Listening THEN feedListeners - 1 ELSE feedListeners
  /\ emitted' = <<>>
  /\ UNCHANGED <<calls, bootVars, user, loadingAuth, formValue, draftAuthor,
                 authVars, signVars, storeVars, feedStatus, messages,
                 authObservers>>

\* ChatAppComponent.js:251 and the hook of line 110: the page is left and
\* ChatAppComponent is dismounted with MessagesList; the effect's cleanup
\* unsubscribes the observer and the hook detaches its listener.  The state
\* variables keep their last values: nothing renders them any more, and the
\* handlers and continuations of the dismounted page do not run.
Unmount ==
  /\ Mounted
  /\ phase' = "dismounted"
  /\ authObservers' = IF phase = "effects" THEN authObservers - 1 ELSE authObservers
  /\ feedListeners' = IF Listening THEN feedListeners - 1 ELSE feedListeners
  /\ emitted' = <<>>
  /\ UNCHANGED <<calls, bootVars, user, loadingAuth, formValue, draftAuthor,
                 authVars, signVars, storeVars, feedStatus, messages>>

\* ChatAppComponent.js:246-249: the onAuthStateChanged observer, called by the
\* provider while it is registered
AuthStateChanged ==
  /\ loaded /\ "auth" \in handles
  /\ authObservers > 0
  /\ observerDirty
  /\ user' = providerUser
  /\ loadingAuth' = FALSE
  /\ observerDirty' = FALSE
  /\ authResolved' = TRUE
  /\ emitted' = <<>>
  /\ Rerender(FALSE, providerUser)
  /\ UNCHANGED <<lifeVars, calls, bootVars, formValue, draftAuthor, providerUser, signVars, storeVars>>

\* ChatAppComponent.js:256-259: click on "Sign In with Google", up to the await
handleGoogleLogin ==
  /\ Mounted
  /\ View = "prompt"
  /\ authCalls < MaxAuthCalls
  /\ authCalls' = authCalls + 1
  /\ loadingAuth' = TRUE
  /\ signInPending' = signInPending + 1
  /\ emitted' = <<>>
  /\ Rerender(TRUE, user)
  /\ UNCHANGED <<lifeVars, bootVars, user, formValue, draftAuthor, authVars, signInResolved,
                 signOutPending, storeVars, addDocCalls>>

\* the provider completes a popup sign-in as identity u (the account chooser is
\* forced, firebase.js:27): currentUser changes, the observer is owed a
\* callback and the promise of line 259 is resolved
ProviderSignedIn(u) ==
  /\ Mounted
  /\ signInPending > 0
  /\ signInPending' = signInPending - 1
  /\ signInResolved' = signInResolved + 1
  /\ providerUser' = u
  /\ observerDirty' = (observerDirty \/ providerUser # u)
  /\ emitted' = <<>>
  /\ UNCHANGED <<lifeVars, calls, bootVars, user, loadingAuth, formValue, draftAuthor, authResolved,
                 signOutPending, storeVars, feedVars>>

\* ChatAppComponent.js:260,264-266: continuation after a resolved sign-in
\* (router.push to the deployed page, then the finally block)
SignInResolved ==
  /\ Mounted
  /\ signInResolved > 0
  /\ signInResolved' = signInResolved - 1
  /\ loadingAuth' = FALSE
  /\ emitted' = <<RouterPush>>
  /\ Rerender(FALSE, user)
  /\ UNCHANGED <<lifeVars, calls, bootVars, user, formValue, draftAuthor, authVars, signInPending,
                 signOutPending, storeVars>>

\* handleGoogleLogin without its finally block
SignInRejected_NoFinally ==
  /\ Mounted
  /\ signInPending > 0
  /\ signInPending' = signInPending - 1
  /\ emitted' = <<LogSignInError, SignInAlert>>
  /\ UNCHANGED <<lifeVars, calls, bootVars, user, loadingAuth, formValue, draftAuthor, authVars,
                 signInResolved, signOutPending, storeVars, feedVars>>

\* ChatAppComponent.js:261-266: the popup is closed or the provider rejects
SignInRejected ==
  /\ Mounted
  /\ signInPending > 0
  /\ signInPending' = signInPending - 1
  /\ emitted' = <<LogSignInError, SignInAlert>>
  /\ loadingAuth' = FALSE
  /\ Rerender(FALSE, user)
  /\ UNCHANGED <<lifeVars, calls, bootVars, user, formValue, draftAuthor, authVars, signInResolved,
                 signOutPending, storeVars>>

\* ChatAppComponent.js:269-271: click on "Sign Out", up to the await
handleSignOut ==
  /\ Mounted
  /\ View = "chat"
  /\ authCalls < MaxAuthCalls
  /\ authCalls' = authCalls + 1
  /\ signOutPending' = signOutPending + 1
  /\ emitted' = <<>>
  /\ UNCHANGED <<lifeVars, bootVars, user, loadingAuth, formValue, draftAuthor, authVars,
                 signInPending, signInResolved, storeVars, feedVars,
                 addDocCalls>>

\* signOut(auth) resolves: the provider drops currentUser; nothing follows the
\* await in the try block (ChatAppComponent.js:271)
SignOutResolved ==
  /\ Mounted
  /\ signOutPending > 0
  /\ signOutPending' = signOutPending - 1
  /\ providerUser' = NoUser
  /\ observerDirty' = (observerDirty \/ providerUser # NoUser)
  /\ emitted' = <<>>
  /\ UNCHANGED <<lifeVars, calls, bootVars, user, loadingAuth, formValue, draftAuthor, authResolved,
                 signInPending, signInResolved, storeVars, feedVars>>

\* the catch block of handleSignOut dropping the session optimistically
SignOutRejected_Optimistic ==
  /\ Mounted
  /\ signOutPending > 0
  /\ signOutPending' = signOutPending - 1
  /\ emitted' = <<LogSignOutError>>
  /\ user' = NoUser
  /\ Rerender(loadingAuth, NoUser)
  /\ UNCHANGED <<lifeVars, calls, bootVars, loadingAuth, formValue, draftAuthor, authVars,
                 signInPending, signInResolved, storeVars>>

\* ChatAppComponent.js:272-274: signOut(auth) rejects, the catch block logs
SignOutRejected ==
  /\ Mounted
  /\ signOutPending > 0
  /\ signOutPending' = signOutPending - 1
  /\ emitted' = <<LogSignOutError>>
  /\ UNCHANGED <<lifeVars, calls, bootVars, user, loadingAuth, formValue, draftAuthor, authVars,
                 signInPending, signInResolved, storeVars, feedVars>>

\* ------------------------------------------------------- composer
\* ChatAppComponent.js:186: onChange of the text field
setFormValue(v) ==
  /\ Mounted
  /\ View = "chat"
  /\ formValue' = v
  /\ draftAuthor' = (IF v = <<>> THEN NoUser ELSE user)
  /\ emitted' = <<>>
  /\ UNCHANGED <<lifeVars, calls, bootVars, user, loadingAuth, authVars, signVars, storeVars,
                 feedVars>>

\* the document built without the fallback for a missing display name
NewMessage_NoFallback(n, text, u) ==
  Doc(<<"local", n>>, text, u, PhotoURL(u), DisplayName(u), PendingTs)

\* the document built at ChatAppComponent.js:228-237 from the draft and the
\* identity captured by this render's closure; n makes its key a fresh one
NewMessage(n, text, u) ==
  Doc(<<"local", n>>, text, u, PhotoURL(u),
      IF DisplayName(u) # "" THEN DisplayName(u) ELSE "Anonymous", PendingTs)

\* the guard of sendMessage without the trim
SubmitAccepted_NoTrim(draft, u) == draft # <<>> /\ u # NoUser

\* ChatAppComponent.js:226: the guard of sendMessage
SubmitAccepted(draft, u) == Trim(draft) # <<>> /\ u # NoUser

\* sendMessage also inserting the new document into the displayed list
sendMessage_Optimistic ==
  /\ loaded /\ "db" \in handles
  /\ Mounted
  /\ emitted' = <<PreventDefault>>
  /\ IF SubmitAccepted(formValue, user)
     THEN /\ addDocCalls < MaxAppends
          /\ addDocCalls' = addDocCalls + 1
          /\ pendingWrites' =
               Append(pendingWrites, NewMessage(addDocCalls + 1, formValue, user))
          /\ messages' =
               Append(messages, NewMessage(addDocCalls + 1, formValue, user))
          /\ UNCHANGED <<store, feedStatus, feedListeners>>
     ELSE UNCHANGED <<storeVars, feedVars, addDocCalls>>
  /\ UNCHANGED <<lifeVars, authCalls, bootVars, user, loadingAuth, formValue, draftAuthor, authVars, signVars>>

\* ChatAppComponent.js:223-237: the submit handler up to the await.  It is
\* modelled as callable in every state of the mounted component: what keeps a
\* blank or unauthenticated submit from reaching the store is the guard of line
\* 226, not the disabled button of line 199.
sendMessage ==
  /\ loaded /\ "db" \in handles
  /\ Mounted
  /\ emitted' = <<PreventDefault>>
  /\ IF SubmitAccepted(formValue, user)
     THEN /\ addDocCalls < MaxAppends
          /\ addDocCalls' = addDocCalls + 1
          /\ pendingWrites' =
               Append(pendingWrites, NewMessage(addDocCalls + 1, formValue, user))
          /\ UNCHANGED store
     ELSE UNCHANGED <<storeVars, addDocCalls>>
  /\ UNCHANGED <<lifeVars, authCalls, bootVars, user, loadingAuth, formValue, draftAuthor, authVars, signVars,
                 feedVars>>

\* ChatAppComponent.js:231-239: the store commits pending write i with a server
\* timestamp, addDoc resolves and the draft is cleared
AddDocResolved(i) ==
  /\ Mounted
  /\ i \in 1..Len(pendingWrites)
  /\ store' = Append(store, [pendingWrites[i] EXCEPT !.createdAt = NextTs])
  /\ pendingWrites' = RemoveAt(pendingWrites, i)
  /\ formValue' = <<>>
  /\ draftAuthor' = NoUser
  /\ emitted' = <<>>
  /\ UNCHANGED <<lifeVars, calls, bootVars, user, loadingAuth, authVars, signVars, feedVars>>

\* the catch block of sendMessage also clearing the draft
AddDocRejected_ClearsDraft(i) ==
  /\ Mounted
  /\ i \in 1..Len(pendingWrites)
  /\ pendingWrites' = RemoveAt(pendingWrites, i)
  /\ emitted' = <<LogSendError>>
  /\ formValue' = <<>>
  /\ draftAuthor' = NoUser
  /\ UNCHANGED <<lifeVars, calls, bootVars, user, loadingAuth, authVars, signVars, store,
                 feedVars>>

\* ChatAppComponent.js:240-242: the store rejects pending write i, the catch
\* block logs
AddDocRejected(i) ==
  /\ Mounted
  /\ i \in 1..Len(pendingWrites)
  /\ pendingWrites' = RemoveAt(pendingWrites, i)
  /\ emitted' = <<LogSendError>>
  /\ UNCHANGED <<lifeVars, calls, bootVars, user, loadingAuth, formValue, draftAuthor, authVars, signVars,
                 store, feedVars>>

\* ------------------------------------------------------- feed binding
\* ChatAppComponent.js:104-110: the subscription delivers the query's current
\* result set; the hook stores it as delivered
OnSnapshot ==
  /\ feedListeners > 0
  /\ Listening
  /\ messages' = MessagesQuery(store, pendingWrites)
  /\ feedStatus' = "ready"
  /\ UNCHANGED feedListeners
  /\ emitted' = <<>>
  /\ UNCHANGED <<lifeVars, calls, bootVars, user, loadingAuth, formValue, draftAuthor, authVars, signVars,
                 storeVars>>

\* ChatAppComponent.js:110,135-139: the subscription fails; the hook reports
\* the error and no value
OnSnapshotError ==
  /\ feedListeners > 0
  /\ Listening
  /\ messages' = <<>>
  /\ feedStatus' = "error"
  /\ feedListeners' = feedListeners - 1
  /\ emitted' = <<>>
  /\ UNCHANGED <<lifeVars, calls, bootVars, user, loadingAuth, formValue, draftAuthor, authVars, signVars,
                 storeVars>>

\* ChatAppComponent.js:160-170: the bubbles rendered, in map order
Displayed == IF View = "chat" /\ feedStatus = "ready" THEN messages ELSE <<>>

\* ------------------------------------------------------- specifications
\* state before firebase.js is evaluated, for any environment
InitBoot ==
  /\ config \in SUBSET ConfigKeys
  /\ loaded = FALSE /\ handles = {} /\ initError = FALSE
  /\ user = NoUser /\ loadingAuth = TRUE /\ formValue = <<>>
  /\ draftAuthor = NoUser /\ phase = "rendered" /\ authObservers = 0
  /\ providerUser = NoUser /\ observerDirty = TRUE /\ authResolved = FALSE
  /\ signInPending = 0 /\ signInResolved = 0 /\ signOutPending = 0
  /\ pendingWrites = <<>> /\ store = <<>>
  /\ feedStatus = "unmounted" /\ messages = <<>> /\ feedListeners = 0
  /\ emitted = <<>> /\ addDocCalls = 0 /\ authCalls = 0

\* first render with loadingAuth initialised to false
Init_NotLoading ==
  /\ config = ConfigKeys
  /\ loaded = TRUE /\ handles = {"app", "auth", "db"} /\ initError = FALSE
  /\ user = NoUser /\ loadingAuth = FALSE /\ formValue = <<>>
  /\ draftAuthor = NoUser /\ phase = "rendered" /\ authObservers = 0
  /\ providerUser \in Users \cup {NoUser}
  /\ observerDirty = TRUE /\ authResolved = FALSE
  /\ signInPending = 0 /\ signInResolved = 0 /\ signOutPending = 0
  /\ pendingWrites = <<>>
  /\ \E n \in SeedSizes : store = [k \in 1..n |-> SeedDoc(k)]
  /\ feedStatus = "unmounted" /\ messages = <<>> /\ feedListeners = 0
  /\ emitted = <<>> /\ addDocCalls = 0 /\ authCalls = 0

\* state after the first render of ChatAppComponent (lines 216-218) with a
\* complete environment: the provider may hold a persisted session and the
\* collection may already hold documents
Init ==
  /\ config = ConfigKeys
  /\ loaded = TRUE /\ handles = {"app", "auth", "db"} /\ initError = FALSE
  /\ user = NoUser /\ loadingAuth = TRUE /\ formValue = <<>>
  /\ draftAuthor = NoUser /\ phase = "rendered" /\ authObservers = 0
  /\ providerUser \in Users \cup {NoUser}
  /\ observerDirty = TRUE /\ authResolved = FALSE
  /\ signInPending = 0 /\ signInResolved = 0 /\ signOutPending = 0
  /\ pendingWrites = <<>>
  /\ \E n \in SeedSizes : store = [k \in 1..n |-> SeedDoc(k)]
  /\ feedStatus = "unmounted" /\ messages = <<>> /\ feedListeners = 0
  /\ emitted = <<>> /\ addDocCalls = 0 /\ authCalls = 0

Next ==
  \/ MountEffect
  \/ Unmount
  \/ AuthStateChanged
  \/ handleGoogleLogin
  \/ \E u \in Users : ProviderSignedIn(u)
  \/ SignInResolved
  \/ SignInRejected
  \/ handleSignOut
  \/ SignOutResolved
  \/ SignOutRejected
  \/ \E v \in Drafts : setFormValue(v)
  \/ sendMessage
  \/ \E i \in 1..Len(pendingWrites) : AddDocResolved(i)
  \/ \E i \in 1..Len(pendingWrites) : AddDocRejected(i)
  \/ OnSnapshot
  \/ OnSnapshotError

Spec == Init /\ [][Next]_vars

NextBoot == LoadFirebase

SpecBoot == InitBoot /\ [][NextBoot]_vars

TypeOK ==
  /\ user \in Users \cup {NoUser}
  /\ loadingAuth \in BOOLEAN
  /\ formValue \in Drafts
  /\ draftAuthor \in Users \cup {NoUser}
  /\ phase \in {"rendered", "effects", "dismounted"}
  /\ authObservers \in 0..1 /\ feedListeners \in 0..1
  /\ Len(messages) <= QueryLimit
  /\ addDocCalls \in 0..MaxAppends /\ authCalls \in 0..MaxAuthCalls

\* ======================================================= properties

\* a submit event is handled in this step
SubmitStep == emitted' = <<PreventDefault>>

\* an addDoc call is acknowledged in this step
AppendAckedStep == Len(store') > Len(store)

\* an addDoc call fails in this step
AppendFailedStep == Len(pendingWrites') < Len(pendingWrites) /\ store' = store

\* a signOut call settles in this step with the provider session still held
SignOutFailedStep ==
  signOutPending' < signOutPending /\ providerUser # NoUser /\ providerUser' # NoUser

\* a signInWithPopup call settles in this step without resolving
SignInFailedStep ==
  signInPending' < signInPending /\ signInResolved' = signInResolved

\* createdAt order with null (pending server timestamp) last
TsLe(a, b) ==
  \/ b.createdAt = PendingTs
  \/ a.createdAt # PendingTs /\ a.createdAt <= b.createdAt

\* C1: a submit whose draft is blank after trimming, or that is made with no
\* authenticated session, issues no append and leaves the draft and the
\* session unchanged.
C1_RejectedSubmitIsNoOp ==
  [][(SubmitStep /\ (Trim(formValue) = <<>> \/ user = NoUser))
       => /\ addDocCalls' = addDocCalls
          /\ pendingWrites' = pendingWrites
          /\ store' = store
          /\ formValue' = formValue
          /\ user' = user
          /\ providerUser' = providerUser]_vars

\* a submit has just been handled in the chat view with a whitespace-only
\* draft, and no append was ever issued
C1_Witness ==
  /\ emitted = <<PreventDefault>> /\ addDocCalls = 0 /\ pendingWrites = <<>>
  /\ View = "chat" /\ formValue # <<>> /\ Trim(formValue) = <<>>

\* C2: an acknowledged append leaves the draft empty; a failed append leaves
\* the draft as it was, logs the error and does nothing else: no notice, no new
\* append.
C2_DraftAfterAck ==
  [][/\ AppendAckedStep => formValue' = <<>>
     /\ AppendFailedStep
          => /\ formValue' = formValue
             /\ emitted' = <<LogSendError>>
             /\ addDocCalls' = addDocCalls
             /\ Len(pendingWrites') = Len(pendingWrites) - 1]_vars

\* an append has just failed and the non-blank draft is still in the composer
C2_Witness ==
  /\ emitted = <<LogSendError>> /\ pendingWrites = <<>>
  /\ View = "chat" /\ Trim(formValue) # <<>>

\* C3: when the store holds more than 50 messages, a feed showing the current
\* snapshot shows the 50 most recent: every shown message has a createdAt
\* greater than or equal to that of every stored message not shown.
C3_MostRecentWindow ==
  (/\ Len(store) > QueryLimit
   /\ View = "chat" /\ feedStatus = "ready"
   /\ messages = MessagesQuery(store, pendingWrites))
    => \A i \in 1..Len(messages) : \A j \in 1..Len(store) :
         store[j].id \notin Ids(messages) => TsLe(store[j], messages[i])

\* C4: the feed displays at most 50 messages, in ascending createdAt order
\* with null createdAt last (each message is ordered before its successor;
\* TsLe is transitive).
C4_FeedBoundedAndOrdered ==
  /\ Len(Displayed) <= QueryLimit
  /\ \A i \in 1..(Len(Displayed) - 1) : TsLe(Displayed[i], Displayed[i + 1])

\* the feed shows a pending message (null createdAt) after a timestamped one
C4_Witness ==
  /\ Len(Displayed) > 1
  /\ Displayed[Len(Displayed)].createdAt = PendingTs
  /\ Displayed[1].createdAt # PendingTs

\* C5: the feed and composer are mounted exactly in the chat view, which needs
\* an authenticated session and no loading; the prompt needs an anonymous
\* session and no loading; before the first auth-state callback the loading
\* indicator is shown.
C5_ViewSelection ==
  /\ View \in {"loading", "prompt", "chat"}
  /\ (feedStatus # "unmounted") <=> (user # NoUser /\ ~loadingAuth)
  /\ (View = "prompt") => (user = NoUser /\ ~loadingAuth)
  /\ ~authResolved => View = "loading"

\* the chat view is shown after the session resolved
C5_Witness == authResolved /\ View = "chat" /\ feedStatus = "ready"

\* the document a submit adds to the pending writes in this step
Issued == pendingWrites'[Len(pendingWrites')]

\* exactly one append is issued in this step, carrying the draft and the
\* identity of the moment of submit and a server-assigned createdAt
OneAppendIssued ==
  /\ addDocCalls' = addDocCalls + 1
  /\ Len(pendingWrites') = Len(pendingWrites) + 1
  /\ SubSeq(pendingWrites', 1, Len(pendingWrites)) = pendingWrites
  /\ Issued.text = formValue
  /\ Issued.uid = user
  /\ Issued.createdAt = PendingTs

\* the document committed in this step is one of the pending writes, unchanged
\* but for its createdAt, whatever the session is now
CommittedAsIssued ==
  \E i \in 1..Len(pendingWrites) :
    /\ store'[Len(store')] = [pendingWrites[i] EXCEPT !.createdAt = NextTs]
    /\ pendingWrites' = RemoveAt(pendingWrites, i)

\* a submit is accepted in this step unless the bound on appends stops it
AcceptedSubmitStep ==
  SubmitStep /\ Trim(formValue) # <<>> /\ user # NoUser

\* C6 as stated: an accepted submit issues exactly one append with the draft as
\* text, the identity's id as uid and the identity's display name as userName.
C6_AppendCarriesDisplayName ==
  [][AcceptedSubmitStep
       => (OneAppendIssued /\ Issued.userName = DisplayName(user))]_vars

\* C6 as amended: the userName is the identity's display name, or "Anonymous"
\* when the identity has none; the committed document is the issued one even
\* if the session changed before the acknowledgment.
C6_AppendCarriesIdentity ==
  [][/\ AcceptedSubmitStep
          => /\ OneAppendIssued
             /\ Issued.userName =
                  (IF DisplayName(user) # "" THEN DisplayName(user) ELSE "Anonymous")
     /\ AppendAckedStep => CommittedAsIssued]_vars

\* a padded message sent by u1 was committed after the view had left u1's
\* session
C6_Witness ==
  \E j \in 1..Len(store) :
    /\ store[j].id[1] = "local"
    /\ store[j].uid = "u1" /\ store[j].userName = "Alice"
    /\ store[j].text # Trim(store[j].text)
    /\ user # "u1"

\* C7 as stated: right after a failed sign-out has been handled the view's
\* session is anonymous and the chat view is not shown.
C7_SignedOutAfterFailure ==
  (emitted = <<LogSignOutError>>) => (user = NoUser /\ View # "chat")

\* C7 as amended: a failed sign-out logs the error and leaves the session and
\* the view as they were; a successful one drops the provider session, and
\* whenever the observer owes no callback the view's session is the provider's.
C7_SignOutOutcome ==
  /\ [][/\ SignOutFailedStep
             => /\ emitted' = <<LogSignOutError>>
                /\ user' = user /\ loadingAuth' = loadingAuth
                /\ providerUser' = providerUser
        /\ (signOutPending' < signOutPending /\ emitted' # <<LogSignOutError>>)
             => providerUser' = NoUser]_vars
  /\ []((authResolved /\ ~observerDirty) => user = providerUser)

\* a sign-out has just failed and the chat view is still shown
C7_Witness ==
  /\ emitted = <<LogSignOutError>> /\ signOutPending = 0
  /\ View = "chat" /\ user = providerUser

\* C8: a failed or cancelled sign-in leaves the session as it was (anonymous,
\* with the prompt shown again), logs the error and raises exactly one notice,
\* leaves the loading state and issues no call; a sign-in call is issued only
\* by a click on the prompt.
C8_SignInFailure ==
  [][/\ SignInFailedStep
          => /\ user' = user /\ providerUser' = providerUser
             /\ emitted' = <<LogSignInError, SignInAlert>>
             /\ loadingAuth' = FALSE
             /\ (user = NoUser => View' = "prompt")
             /\ authCalls' = authCalls
             /\ signInPending' = signInPending - 1
     /\ signInPending' > signInPending
          => /\ View = "prompt" /\ View' = "loading"
             /\ signInPending' = signInPending + 1
             /\ authCalls' = authCalls + 1]_vars

\* a sign-in from the anonymous prompt has just failed: the notice was raised,
\* the prompt is shown again, nothing is in flight
C8_Witness ==
  /\ emitted = <<LogSignInError, SignInAlert>>
  /\ signInPending = 0 /\ signInResolved = 0
  /\ user = NoUser /\ providerUser = NoUser /\ View = "prompt"

\* a snapshot is delivered in this step
SnapshotStep ==
  /\ feedStatus \in {"loading", "ready"} /\ feedStatus' = "ready"
  /\ messages' = MessagesQuery(store, pendingWrites)
  /\ store' = store /\ pendingWrites' = pendingWrites

\* C9: a submit leaves the displayed list as it is; the list changes only when
\* a snapshot is delivered, or is dropped when the feed fails or is unmounted.
C9_NoOptimisticInsert ==
  [][/\ SubmitStep => (messages' = messages /\ feedStatus' = feedStatus)
     /\ messages' # messages
          => \/ SnapshotStep
             \/ messages' = <<>> /\ feedStatus' \in {"unmounted", "error"}]_vars

\* a sent message is pending, would be in the query window, and is not in the
\* list the feed shows
C9_Witness ==
  /\ View = "chat" /\ feedStatus = "ready" /\ messages # <<>>
  /\ pendingWrites # <<>>
  /\ Len(store) < QueryLimit
  /\ pendingWrites[1].id \notin Ids(messages)

\* the connection parameters the client cannot work without
RequiredKeys == {"apiKey", "authDomain", "projectId", "appId"}

\* C10: once firebase.js has been evaluated with a required connection
\* parameter absent, initialisation has failed and neither the auth nor the
\* document-store handle exists.
C10_FailFastOnMissingConfig ==
  (loaded /\ ~(RequiredKeys \subseteq config))
    => (initError /\ handles \cap {"auth", "db"} = {})

\* C11: the session observer is registered once, by the mount effect, and the
\* feed listener once, when MessagesList mounts; at any time at most one of
\* each is active, the feed listener exactly while the mounted hook is
\* subscribed; after ChatAppComponent is dismounted none is active and no
\* callback changes the state of the view.
C11_ObserversFollowMount ==
  /\ [](/\ authObservers <= 1 /\ feedListeners <= 1
        /\ authObservers = (IF phase = "effects" THEN 1 ELSE 0)
        /\ feedListeners = (IF Mounted /\ Listening THEN 1 ELSE 0))
  /\ [][/\ authObservers' > authObservers
             => (phase = "rendered" /\ phase' = "effects")
        /\ feedListeners' > feedListeners
             => (Mounted /\ feedStatus = "unmounted" /\ feedStatus' = "loading")
        /\ phase = "dismounted"
             => UNCHANGED <<user, loadingAuth, formValue, feedStatus, messages,
                            phase, authObservers, feedListeners>>]_vars

\* the page was left while the chat view of a resolved session was showing the
\* feed and the provider owes the observer a callback for a session change
C11_Witness ==
  /\ phase = "dismounted" /\ authResolved /\ observerDirty
  /\ user # NoUser /\ providerUser # user /\ feedStatus = "ready"

\* C12: an acknowledgment leaves in the composer a draft that differs from the
\* text submitted, i.e. text typed while the append was in flight.
C12_TypedInFlightSurvivesAck ==
  [][(AppendAckedStep /\ formValue # store'[Len(store')].text)
       => formValue' = formValue]_vars

\* C13: the composer shown to an identity holds no draft typed by another
\* identity.
C13_DraftStaysInSession ==
  (View = "chat" /\ formValue # <<>>) => draftAuthor = user

====
